---- MODULE Spec2Model ----
(***************************************************************************)
(* Model of the job-grammar parser of src/main.cpp:                        *)
(*   <JOB> = <CMD>{'|'<CMD>}*{'>'<STR>}?'\n'                               *)
(*   <CMD> = <STR>{' '<STR>}*                                              *)
(* A text is a sequence of one-character strings.  The parser is a state   *)
(* machine with one step per loop iteration / statement block of ParseJob, *)
(* NextCmd and ParseStr; the same step operators, iterated, give ParseJob  *)
(* as a function of its input.                                             *)
(***************************************************************************)
EXTENDS Integers, Sequences, FiniteSets, TLC

\* Longest input text explored.
MaxLen == 5
\* Longest run of extra spaces inserted when comparing two inputs (C5).
MaxPad == 2

\* Two ordinary (word) characters and every special character of the grammar.
Alphabet == {"a", "b", " ", "|", ">", "\n"}
Inputs == UNION {[1..n -> Alphabet] : n \in 0..MaxLen}

VARIABLES
  m_string,      \* StringToBeParsed::m_string
  m_currentPos,  \* StringToBeParsed::m_currentPos
  pc,            \* position of the running parse in ParseJob/NextCmd/ParseStr
  caller,        \* who called ParseStr: "NextCmd" or "ParseJob"
  str,           \* ParseStr's local str (and, after its return, its result)
  cmd,           \* NextCmd's local cmd.args
  job,           \* ParseJob's local job: [commands, redirectFilename]
  lastCall,      \* cursor exerciser: the member function called last
  prevPos,       \* cursor exerciser: m_currentPos before that call
  ret            \* cursor exerciser: the character that call returned

pvars == <<m_string, m_currentPos, pc, caller, str, cmd, job>>
cvars == <<lastCall, prevPos, ret>>
vars == <<m_string, m_currentPos, pc, caller, str, cmd, job, lastCall, prevPos, ret>>

----------------------------------------------------------------------------
(* StringToBeParsed *)

\* What std::string::at yields past the end: std::out_of_range is thrown.
OutOfRange == "out_of_range"

CurrentChar(s, pos) ==
  IF Len(s) = 0 \/ pos = Len(s) THEN "\n"
  ELSE IF pos < Len(s) THEN s[pos + 1]
  ELSE OutOfRange

\* Mutants of NextChar: no advance; advance without the end test; advance by two.
NextCharStuck(s, pos) == pos
NextCharUnguarded(s, pos) == pos + 1
NextCharSkip(s, pos) == IF pos < Len(s) THEN pos + 2 ELSE pos

\* The position after NextChar(); the character it returns is CurrentChar there.
NextChar(s, pos) == IF pos < Len(s) THEN pos + 1 ELSE pos

----------------------------------------------------------------------------
(* Token / ToToken *)

Pipe == "Pipe"
Redirect == "Redirect"
StrSeparator == "StrSeparator"
Str == "Str"
End == "End"

ToToken(c) ==
  CASE c = "|" -> Pipe
    [] c = ">" -> Redirect
    [] c = " " -> StrSeparator
    [] c = "\n" -> End
    [] OTHER -> Str

----------------------------------------------------------------------------
(* The parser's steps, as functions of its state record *)

State ==
  [m_string |-> m_string, m_currentPos |-> m_currentPos, pc |-> pc,
   caller |-> caller, str |-> str, cmd |-> cmd, job |-> job]

EmptyJob == [commands |-> <<>>, redirectFilename |-> <<>>]

\* ParseJob called on a fresh cursor over s.
Start(s) ==
  [m_string |-> s, m_currentPos |-> 0, pc |-> "ParseJob_skip",
   caller |-> "none", str |-> <<>>, cmd |-> <<>>, job |-> EmptyJob]

Cur(st) == CurrentChar(st.m_string, st.m_currentPos)
Advance(st) == [st EXCEPT !.m_currentPos = NextChar(st.m_string, st.m_currentPos)]
\* An exception leaves every function on the stack.
Threw(st) == [st EXCEPT !.pc = "threw"]

\* ParseJob, the space-skipping loop and the call of NextCmd.
ParseJobSkipStep(st) ==
  IF Cur(st) = OutOfRange THEN Threw(st)
  ELSE IF ToToken(Cur(st)) = StrSeparator THEN Advance(st)
  ELSE [st EXCEPT !.pc = "NextCmd_skip", !.cmd = <<>>]

\* NextCmd, the space-skipping loop and the call of ParseStr.
NextCmdSkipStep(st) ==
  IF Cur(st) = OutOfRange THEN Threw(st)
  ELSE IF ToToken(Cur(st)) = StrSeparator THEN Advance(st)
  ELSE [st EXCEPT !.pc = "ParseStr", !.caller = "NextCmd", !.str = <<>>]

\* Mutant of ParseStrStep: str = c instead of str += c.
ParseStrStepAssign(st) ==
  IF Cur(st) = OutOfRange THEN Threw(st)
  ELSE IF ToToken(Cur(st)) # Str
  THEN [st EXCEPT !.pc = IF st.caller = "NextCmd" THEN "NextCmd_next" ELSE "Redirect_str"]
  ELSE [Advance(st) EXCEPT !.str = <<Cur(st)>>]

\* Mutant of ParseStrStep: the loop ends at the end of the text, not at token End.
ParseStrStepToEnd(st) ==
  IF Cur(st) = OutOfRange THEN Threw(st)
  ELSE IF ToToken(Cur(st)) \in {Pipe, Redirect, StrSeparator}
          \/ st.m_currentPos = Len(st.m_string)
  THEN [st EXCEPT !.pc = IF st.caller = "NextCmd" THEN "NextCmd_next" ELSE "Redirect_str"]
  ELSE [Advance(st) EXCEPT !.str = Append(st.str, Cur(st))]

\* ParseStr, one iteration of its loop.
ParseStrStep(st) ==
  IF Cur(st) = OutOfRange THEN Threw(st)
  ELSE IF ToToken(Cur(st)) # Str
  THEN [st EXCEPT !.pc = IF st.caller = "NextCmd" THEN "NextCmd_next" ELSE "Redirect_str"]
  ELSE [Advance(st) EXCEPT !.str = Append(st.str, Cur(st))]

\* cmd.args after `if (!str.empty()) cmd.args.push_back(str)`.
PushArg(args, s) == IF s # <<>> THEN Append(args, s) ELSE args

\* Mutant of NextCmdNextStep: the argument is inserted at the front.
NextCmdNextStepFront(st) ==
  IF Cur(st) = OutOfRange THEN Threw(st)
  ELSE LET args == IF st.str # <<>> THEN <<st.str>> \o st.cmd ELSE st.cmd IN
       IF ToToken(Cur(st)) = StrSeparator
       THEN [Advance(st) EXCEPT !.cmd = args, !.pc = "NextCmd_skip"]
       ELSE [st EXCEPT !.cmd = args, !.pc = "ParseJob_next"]

\* Mutant of NextCmdNextStep: returns after the first <STR>, whatever follows.
NextCmdNextStepReturn(st) ==
  IF Cur(st) = OutOfRange THEN Threw(st)
  ELSE [st EXCEPT !.cmd = PushArg(st.cmd, st.str), !.pc = "ParseJob_next"]

\* NextCmd after ParseStr returned: keep the word, then continue or return.
NextCmdNextStep(st) ==
  IF Cur(st) = OutOfRange THEN Threw(st)
  ELSE IF ToToken(Cur(st)) = StrSeparator
       THEN [Advance(st) EXCEPT !.cmd = PushArg(st.cmd, st.str), !.pc = "NextCmd_skip"]
       ELSE [st EXCEPT !.cmd = PushArg(st.cmd, st.str), !.pc = "ParseJob_next"]

\* job.commands after `if (!cmd.args.empty()) job.commands.push_back(cmd)`.
PushCmd(commands, args) == IF args # <<>> THEN Append(commands, args) ELSE commands

\* Mutant of ParseJobNextStep: the command is kept even when it has no argument.
ParseJobNextStepKeepEmpty(st) ==
  IF Cur(st) = OutOfRange THEN Threw(st)
  ELSE IF ToToken(Cur(st)) = Pipe
       THEN [Advance(st) EXCEPT !.job.commands = Append(st.job.commands, st.cmd),
                                !.pc = "ParseJob_skip"]
       ELSE [st EXCEPT !.job.commands = Append(st.job.commands, st.cmd),
                       !.pc = "ParseJob_redirect"]

\* ParseJob after NextCmd returned: keep the command, then continue or break.
ParseJobNextStep(st) ==
  IF Cur(st) = OutOfRange THEN Threw(st)
  ELSE IF ToToken(Cur(st)) = Pipe
       THEN [Advance(st) EXCEPT !.job.commands = PushCmd(st.job.commands, st.cmd),
                                !.pc = "ParseJob_skip"]
       ELSE [st EXCEPT !.job.commands = PushCmd(st.job.commands, st.cmd),
                       !.pc = "ParseJob_redirect"]

\* Mutant of ParseJobRedirectStep: the '>' is not stepped over.
ParseJobRedirectStepNoAdvance(st) ==
  IF Cur(st) = OutOfRange THEN Threw(st)
  ELSE IF ToToken(Cur(st)) = Redirect
       THEN [st EXCEPT !.pc = "Redirect_skip"]
       ELSE [st EXCEPT !.pc = "done"]

\* ParseJob, the test for '>' after the loop over the commands.
ParseJobRedirectStep(st) ==
  IF Cur(st) = OutOfRange THEN Threw(st)
  ELSE IF ToToken(Cur(st)) = Redirect
       THEN [Advance(st) EXCEPT !.pc = "Redirect_skip"]
       ELSE [st EXCEPT !.pc = "done"]

\* Mutant of RedirectSkipStep: `if` instead of `while`, one space is skipped.
RedirectSkipStepOnce(st) ==
  IF Cur(st) = OutOfRange THEN Threw(st)
  ELSE IF ToToken(Cur(st)) = StrSeparator
       THEN [Advance(st) EXCEPT !.pc = "ParseStr", !.caller = "ParseJob", !.str = <<>>]
       ELSE [st EXCEPT !.pc = "ParseStr", !.caller = "ParseJob", !.str = <<>>]

\* ParseJob, the space-skipping loop after '>' and the call of ParseStr.
RedirectSkipStep(st) ==
  IF Cur(st) = OutOfRange THEN Threw(st)
  ELSE IF ToToken(Cur(st)) = StrSeparator THEN Advance(st)
  ELSE [st EXCEPT !.pc = "ParseStr", !.caller = "ParseJob", !.str = <<>>]

\* job.redirectFilename = ParseStr(p); return job.  The path keeps the text
\* it is built from unchanged.
RedirectStrStep(st) ==
  [st EXCEPT !.job.redirectFilename = st.str, !.pc = "done"]

Step(st) ==
  CASE st.pc = "ParseJob_skip" -> ParseJobSkipStep(st)
    [] st.pc = "NextCmd_skip" -> NextCmdSkipStep(st)
    [] st.pc = "ParseStr" -> ParseStrStep(st)
    [] st.pc = "NextCmd_next" -> NextCmdNextStep(st)
    [] st.pc = "ParseJob_next" -> ParseJobNextStep(st)
    [] st.pc = "ParseJob_redirect" -> ParseJobRedirectStep(st)
    [] st.pc = "Redirect_skip" -> RedirectSkipStep(st)
    [] st.pc = "Redirect_str" -> RedirectStrStep(st)
    [] OTHER -> st

RECURSIVE Run(_)
Run(st) == IF st.pc \in {"done", "threw"} THEN st ELSE Run(Step(st))

\* The Job ParseJob returns for a fresh cursor over s.
ParseJob(s) == Run(Start(s)).job

----------------------------------------------------------------------------
(* The parser as a state machine *)

Becomes(st) ==
  /\ m_string' = st.m_string
  /\ m_currentPos' = st.m_currentPos
  /\ pc' = st.pc
  /\ caller' = st.caller
  /\ str' = st.str
  /\ cmd' = st.cmd
  /\ job' = st.job
  /\ UNCHANGED cvars

Init ==
  /\ m_string \in Inputs
  /\ m_currentPos = 0
  /\ pc = "ParseJob_skip"
  /\ caller = "none"
  /\ str = <<>>
  /\ cmd = <<>>
  /\ job = EmptyJob
  /\ lastCall = "none"
  /\ prevPos = 0
  /\ ret = "\n"

ParseJobSkip == pc = "ParseJob_skip" /\ Becomes(ParseJobSkipStep(State))
NextCmdSkip == pc = "NextCmd_skip" /\ Becomes(NextCmdSkipStep(State))
ParseStr == pc = "ParseStr" /\ Becomes(ParseStrStep(State))
NextCmdNext == pc = "NextCmd_next" /\ Becomes(NextCmdNextStep(State))
ParseJobNext == pc = "ParseJob_next" /\ Becomes(ParseJobNextStep(State))
ParseJobRedirect == pc = "ParseJob_redirect" /\ Becomes(ParseJobRedirectStep(State))
RedirectSkip == pc = "Redirect_skip" /\ Becomes(RedirectSkipStep(State))
RedirectStr == pc = "Redirect_str" /\ Becomes(RedirectStrStep(State))

Next ==
  \/ ParseJobSkip
  \/ NextCmdSkip
  \/ ParseStr
  \/ NextCmdNext
  \/ ParseJobNext
  \/ ParseJobRedirect
  \/ RedirectSkip
  \/ RedirectStr

Spec == Init /\ [][Next]_vars

----------------------------------------------------------------------------
(* The cursor alone, under arbitrary sequences of calls *)

CallNextChar ==
  /\ pc = "cursor"
  /\ m_currentPos' = NextChar(m_string, m_currentPos)
  /\ ret' = CurrentChar(m_string, m_currentPos')
  /\ prevPos' = m_currentPos
  /\ lastCall' = "NextChar"
  /\ UNCHANGED <<m_string, pc, caller, str, cmd, job>>

CallCurrentChar ==
  /\ pc = "cursor"
  /\ ret' = CurrentChar(m_string, m_currentPos)
  /\ prevPos' = m_currentPos
  /\ lastCall' = "CurrentChar"
  /\ UNCHANGED pvars

CursorInit ==
  /\ m_string \in Inputs
  /\ m_currentPos = 0
  /\ pc = "cursor"
  /\ caller = "none"
  /\ str = <<>>
  /\ cmd = <<>>
  /\ job = EmptyJob
  /\ lastCall = "none"
  /\ prevPos = 0
  /\ ret = "\n"

CursorNext ==
  \/ CallNextChar
  \/ CallCurrentChar

CursorSpec == CursorInit /\ [][CursorNext]_vars

----------------------------------------------------------------------------
(* What the grammar says of a text, computed without the parser *)

Has(s, ch) == \E i \in 1..Len(s) : s[i] = ch
\* Index of the first ch of s, Len(s) + 1 when there is none.
FirstIndex(s, ch) ==
  IF Has(s, ch) THEN CHOOSE i \in 1..Len(s) : s[i] = ch /\ \A j \in 1..(i - 1) : s[j] # ch
  ELSE Len(s) + 1
BeforeFirst(s, ch) == SubSeq(s, 1, FirstIndex(s, ch) - 1)
AfterFirst(s, ch) == SubSeq(s, FirstIndex(s, ch) + 1, Len(s))

RECURSIVE Split(_, _)
Split(s, ch) ==
  IF Has(s, ch) THEN <<BeforeFirst(s, ch)>> \o Split(AfterFirst(s, ch), ch)
  ELSE <<s>>

NonEmpty(seqs) == SelectSeq(seqs, LAMBDA w : w # <<>>)
Words(segment) == NonEmpty(Split(segment, " "))
\* Split at '|', each segment at spaces, empty words and empty segments dropped.
SplitCommands(s) ==
  LET segments == Split(s, "|") IN
  NonEmpty([i \in 1..Len(segments) |-> Words(segments[i])])

IsWordChar(ch) == ch \notin {" ", "|", ">", "\n"}
\* Lengths of the longest prefix of s made of spaces, and of word characters.
SpaceRun(s) ==
  CHOOSE n \in 0..Len(s) :
    /\ \A i \in 1..n : s[i] = " "
    /\ (n < Len(s) => s[n + 1] # " ")
WordRun(s) ==
  CHOOSE n \in 0..Len(s) :
    /\ \A i \in 1..n : IsWordChar(s[i])
    /\ (n < Len(s) => ~IsWordChar(s[n + 1]))
SpacesAfterRedirect(s) == SpaceRun(AfterFirst(s, ">"))
\* The maximal run of word characters at the first non-space after the first '>'.
WordAfterRedirect(s) ==
  LET rest == AfterFirst(s, ">")
      from == SubSeq(rest, SpacesAfterRedirect(s) + 1, Len(rest))
  IN SubSeq(from, 1, WordRun(from))

RECURSIVE Join(_, _)
Join(seqs, sep) ==
  IF seqs = <<>> THEN <<>>
  ELSE IF Len(seqs) = 1 THEN seqs[1]
  ELSE seqs[1] \o <<sep>> \o Join(Tail(seqs), sep)
\* Commands joined by '|', arguments by one space, '>' and the target appended.
Serialize(j) ==
  Join([i \in 1..Len(j.commands) |-> Join(j.commands[i], " ")], "|")
    \o (IF j.redirectFilename # <<>> THEN <<">">> \o j.redirectFilename ELSE <<>>)

\* s with k more spaces put in front of its i-th character.
InsertSpaces(s, i, k) == SubSeq(s, 1, i - 1) \o [n \in 1..k |-> " "] \o SubSeq(s, i, Len(s))
\* s without its i-th character.
Remove(s, i) == SubSeq(s, 1, i - 1) \o SubSeq(s, i + 1, Len(s))

Done == pc = "done"

----------------------------------------------------------------------------
(* The claims *)

\* Rank of a position of the parse among those reachable from it without
\* moving the cursor: a step that keeps the cursor moves to a lower rank.
PcRank ==
  CASE pc = "ParseJob_skip" -> 9
    [] pc = "NextCmd_skip" -> 8
    [] pc = "ParseStr" /\ caller = "NextCmd" -> 7
    [] pc = "NextCmd_next" -> 6
    [] pc = "ParseJob_next" -> 5
    [] pc = "ParseJob_redirect" -> 4
    [] pc = "Redirect_skip" -> 3
    [] pc = "ParseStr" /\ caller = "ParseJob" -> 2
    [] pc = "Redirect_str" -> 1
    [] OTHER -> 0
\* Characters left, then rank: the measure of the work left to the parse.
Variant == 10 * (Len(m_string) - m_currentPos) + PcRank

\* C1: for every input (the empty one and those made only of spaces, '|' and
\* '>' included) ParseJob returns a Job: no step ends in an error, and every
\* step of ParseStr, NextCmd and ParseJob lowers a natural-number measure, a
\* further step being possible until ParseJob has returned: no loop runs forever.
C1_Terminates ==
  /\ [][Variant' < Variant]_vars
  /\ [](Variant >= 0 /\ pc # "threw" /\ (Done \/ ENABLED Next))
C1_Witness ==
  /\ Done
  /\ Len(m_string) >= 3
  /\ \A i \in 1..Len(m_string) : m_string[i] \in {" ", "|", ">"}
  /\ Has(m_string, " ") /\ Has(m_string, "|") /\ Has(m_string, ">")

\* C2: no Command of the Job has an empty argument list, at any moment of the
\* parse and in the Job returned; consecutive, leading or trailing '|' add none.
C2_NoEmptyCommand ==
  \A i \in 1..Len(job.commands) : job.commands[i] # <<>>
C2_Witness ==
  /\ Done
  /\ Len(job.commands) >= 1
  /\ \E i \in 1..(Len(m_string) - 1) : m_string[i] = "|" /\ m_string[i + 1] = "|"
  /\ m_string[1] = "|"

\* C3: for a line S (no newline) the commands returned are, in order, the
\* split of S (of its prefix before the first '>' when it has one) at '|',
\* then at spaces, with empty words and empty segments dropped.
C3_Commands ==
  (Done /\ ~Has(m_string, "\n")) =>
    job.commands = SplitCommands(BeforeFirst(m_string, ">"))
C3_Witness ==
  /\ Done
  /\ ~Has(m_string, "\n")
  /\ Has(m_string, ">")
  /\ Len(job.commands) = 2
  /\ job.commands[1] # job.commands[2]

\* C4: for a line S (no newline) the redirect target is empty when S has no
\* '>' or no word character follows the first '>' and its spaces; otherwise it
\* is the maximal run of word characters at the first non-space after that '>'.
C4_Redirect ==
  (Done /\ ~Has(m_string, "\n")) =>
    job.redirectFilename =
      IF Has(m_string, ">") THEN WordAfterRedirect(m_string) ELSE <<>>
C4_Witness ==
  /\ Done
  /\ ~Has(m_string, "\n")
  /\ Len(job.redirectFilename) >= 1
  /\ SpacesAfterRedirect(m_string) >= 1
  /\ Len(job.commands) >= 1

\* C5: lengthening a run of spaces of S by 1..MaxPad spaces, or shortening a
\* run of two or more by one, gives an input with the same Job.
C5_SpacesAreDelimiters ==
  Done =>
    \A i \in 1..Len(m_string) :
      m_string[i] = " " =>
        /\ \A k \in 1..MaxPad : ParseJob(InsertSpaces(m_string, i, k)) = job
        /\ (i < Len(m_string) /\ m_string[i + 1] = " ") =>
             ParseJob(Remove(m_string, i)) = job
C5_Witness ==
  /\ Done
  /\ \E i \in 1..(Len(m_string) - 1) : m_string[i] = " " /\ m_string[i + 1] = " "
  /\ Len(job.commands) >= 1
  /\ job.redirectFilename # <<>>

\* C6: parsing the serialization of the Job returned gives that Job again.
C6_RoundTrip == Done => ParseJob(Serialize(job)) = job
C6_Witness ==
  /\ Done
  /\ Len(job.commands) >= 1
  /\ Len(job.commands[1]) >= 2
  /\ Has(m_string, "|")
  /\ Serialize(job) # m_string

\* C7 as claimed, and only for the inputs without a newline: when ParseJob
\* returns the cursor is at the end of S, no character being left unconsumed.
C7_ConsumesAll == (Done /\ ~Has(m_string, "\n")) => m_currentPos = Len(m_string)

\* Where the parse of s stops: at the first newline (or the end) when no '>'
\* comes before it, else right after the redirect target.
StopPos(s) ==
  LET line == BeforeFirst(s, "\n") IN
  IF Has(line, ">")
  THEN FirstIndex(s, ">") + SpacesAfterRedirect(s) + Len(WordAfterRedirect(s))
  ELSE Len(line)

\* C7 amended: the position only ever changes by +1 (no backtracking, no
\* character consumed twice or skipped before the stop); when ParseJob returns
\* the cursor is at the end of S if S has neither '>' nor newline, and else at
\* the first newline or, after a '>', right behind the redirect target, on a
\* character that is no word character or at the end.
C7_NoBacktrack ==
  /\ [][m_currentPos' = m_currentPos \/ m_currentPos' = m_currentPos + 1]_vars
  /\ [](Done =>
         /\ m_currentPos = StopPos(m_string)
         /\ m_currentPos <= Len(m_string)
         /\ ToToken(CurrentChar(m_string, m_currentPos)) # Str
         /\ (~Has(m_string, ">") /\ ~Has(m_string, "\n")) =>
              m_currentPos = Len(m_string))
C7_Witness ==
  /\ Done
  /\ m_currentPos < Len(m_string)
  /\ ~Has(m_string, "\n")
  /\ job.redirectFilename # <<>>

\* C8: the position stays within 0..n; CurrentChar leaves it unchanged and
\* returns '\n' at position n (empty text included) and the character at the
\* position otherwise; NextChar at position n stays at n and returns '\n'.
C8_Cursor ==
  /\ m_currentPos \in 0..Len(m_string)
  /\ lastCall = "CurrentChar" =>
       /\ m_currentPos = prevPos
       /\ ret = IF m_currentPos = Len(m_string) THEN "\n" ELSE m_string[m_currentPos + 1]
  /\ (lastCall = "NextChar" /\ prevPos = Len(m_string)) =>
       /\ m_currentPos = Len(m_string)
       /\ ret = "\n"
  /\ (lastCall = "NextChar" /\ prevPos < Len(m_string)) =>
       /\ m_currentPos = prevPos + 1
       /\ ret = IF m_currentPos = Len(m_string) THEN "\n" ELSE m_string[m_currentPos + 1]
C8_Witness ==
  /\ lastCall = "NextChar"
  /\ prevPos = Len(m_string)
  /\ Len(m_string) >= 2
  /\ m_string[Len(m_string)] # "\n"

\* C9: when NextCmd has returned the token under the cursor is Pipe, Redirect
\* or End, and no '>' or newline lies behind the cursor: the '|' or '>' after
\* a word and spaces is the one ParseJob tests next.
C9_AfterNextCmd ==
  pc = "ParseJob_next" =>
    /\ ToToken(CurrentChar(m_string, m_currentPos)) \in {Pipe, Redirect, End}
    /\ \A i \in 1..m_currentPos : m_string[i] \notin {">", "\n"}
C9_Witness ==
  /\ pc = "ParseJob_next"
  /\ cmd # <<>>
  /\ m_currentPos >= 2
  /\ m_string[m_currentPos] = " "
  /\ ToToken(CurrentChar(m_string, m_currentPos)) \in {Pipe, Redirect}

\* C10: an input S + "\n" + T gives the Job of S and of S + "\n": the newline
\* ends the parse like the end of the text, and T has no influence.
C10_NewlineIsEnd ==
  (Done /\ Has(m_string, "\n")) =>
    /\ job = ParseJob(BeforeFirst(m_string, "\n"))
    /\ job = ParseJob(BeforeFirst(m_string, "\n") \o <<"\n">>)
C10_Witness ==
  /\ Done
  /\ Has(m_string, "\n")
  /\ Len(job.commands) >= 1
  /\ \E i \in 1..Len(AfterFirst(m_string, "\n")) :
       IsWordChar(AfterFirst(m_string, "\n")[i])

====
